---- MODULE Spec2Model ----
(***************************************************************************)
(* Model of the QR generator backend (src/QR/BACKEND/server.js): the       *)
(* POST /api/generate-qr handler, the render-mode choice and the           *)
(* readability scorer validateQRCodeReadability with its four penalty      *)
(* functions; and of the form state of the React component App            *)
(* (src/QR/REACT/src/App.jsx).                                             *)
(*                                                                         *)
(* Strings are sequences of Unicode code points (integers), so that the    *)
(* regular expressions of the source are range tests and String.length is  *)
(* the number of UTF-16 code units.  An optional value (null / undefined   *)
(* in the source) is a sequence of length 0 or 1.                          *)
(***************************************************************************)
EXTENDS Integers, Sequences, FiniteSets, TLC

VARIABLES
    sharp,            \* module binding `sharp`: TRUE iff require('sharp') succeeded
    pc,               \* position of the request handler
    body,             \* req.body: url, emoji, customText, useCustomPattern
    file,             \* req.file: <<>> or <<metadata of the uploaded file>>
    uploaded,         \* TRUE while the temporary upload is on disk
    qrCodeDataURL,    \* <<>> or <<the rendered image>>
    matrix,           \* <<>> or <<the QR matrix of the scorer>>
    readabilityScore, \* local of validateQRCodeReadability
    warning,          \* local of validateQRCodeReadability
    emojiComplexity,  \* <<>> or <<penalty subtracted at line 458>>
    textComplexity,   \* <<>> or <<penalty subtracted at line 466>>
    imageComplexity,  \* <<>> or <<penalty subtracted at line 477>>
    qrComplexity,     \* <<>> or <<penalty subtracted at line 486>>
    validationResult, \* <<>> or <<[isReadable, warning]>>
    response,         \* <<>> or <<the HTTP response>>
    fellBack,         \* TRUE once a custom renderer logged its fall-back
    ret,              \* <<>> or <<value returned by a function called on its own>>
    ui,               \* the state of the React component App
    peer              \* a second request in flight: its position and its upload

vars == <<sharp, pc, body, file, uploaded, qrCodeDataURL, matrix,
          readabilityScore, warning, emojiComplexity, textComplexity,
          imageComplexity, qrComplexity, validationResult, response,
          fellBack, ret, ui, peer>>

----------------------------------------------------------------------------
(* Bounds of the model *)

\* captions of every length up to MaxShortLen over Alphabet are submitted
MaxShortLen == 1

\* QR versions 1..MaxVersion are given to getQRComplexity
MaxVersion == 6

----------------------------------------------------------------------------
(* Strings *)

Min(a, b) == IF a < b THEN a ELSE b

RECURSIVE SumSeq(_)
SumSeq(s) == IF s = <<>> THEN 0 ELSE Head(s) + SumSeq(Tail(s))

\* UTF-16 code units of one code point
Units(c) == IF c > 65535 THEN 2 ELSE 1

\* String.prototype.length
JSLength(text) == SumSeq([i \in 1..Len(text) |-> Units(text[i])])

\* the code points the captions of the model are made of:
\* A a 7 ! space, U+2764 heavy black heart, U+1F499 blue heart,
\* U+1F90D white heart, U+2B50 star
Alphabet == {65, 97, 55, 33, 32, 10084, 128153, 129293, 11088}

ShortTexts == UNION {[1..n -> Alphabet] : n \in 0..MaxShortLen}

TenUpper == [i \in 1..10 |-> 64 + i]
TenLowerSame == [i \in 1..10 |-> 97]
TenSpecial == <<33, 64, 35, 36, 37, 94, 38, 42, 40, 41>>
RedHeart == <<10084, 65039>>
ElevenUpper == [i \in 1..11 |-> 64 + i]

LongTexts == {TenUpper, TenLowerSame, TenSpecial, RedHeart, ElevenUpper,
              <<65, 65>>, <<97, 98>>, <<65, 128153>>, <<128293>>,
              <<128420>>, <<127775>>, <<128155>>, <<128156>>}

Texts == ShortTexts \cup LongTexts

----------------------------------------------------------------------------
(* Emoji detection and extraction *)

\* the character class of emojiRegex: six code point ranges
EmojiRange(c) ==
    \/ (c >= 128512 /\ c <= 128591)   \* 1F600-1F64F
    \/ (c >= 127744 /\ c <= 128511)   \* 1F300-1F5FF
    \/ (c >= 128640 /\ c <= 128767)   \* 1F680-1F6FF
    \/ (c >= 127456 /\ c <= 127487)   \* 1F1E0-1F1FF
    \/ (c >= 9728 /\ c <= 9983)       \* 2600-26FF
    \/ (c >= 9984 /\ c <= 10175)      \* 2700-27BF

containsEmoji(text) == \E i \in 1..Len(text) : EmojiRange(text[i])

\* the literal returned when nothing matches, as the file spells it
DefaultGlyph == <<8218, 249, 167, 212, 8719, 232>>

\* match[0] of a one-code-point class is one code point
extractFirstEmoji(text) ==
    IF containsEmoji(text)
    THEN LET i == CHOOSE j \in 1..Len(text) :
                      /\ EmojiRange(text[j])
                      /\ \A k \in 1..(j - 1) : ~EmojiRange(text[k])
         IN <<text[i]>>
    ELSE DefaultGlyph

----------------------------------------------------------------------------
(* The four penalties *)

\* the keys and values of complexityMap, as the file spells them
complexityMap ==
    (<<8218, 249, 167, 212, 8719, 232>> :> 5) @@
    (<<63743, 252, 237, 244>> :> 5) @@
    (<<63743, 252, 237, 246>> :> 5) @@
    (<<63743, 252, 237, 245>> :> 8) @@
    (<<63743, 252, 237, 250>> :> 6) @@
    (<<63743, 252, 241, 167>> :> 3) @@
    (<<63743, 252, 167, 231>> :> 10) @@
    (<<63743, 252, 238, 8226>> :> 7) @@
    (<<8218, 8800, 234>> :> 6) @@
    (<<63743, 252, 229, 252>> :> 8)

getEmojiComplexity(emoji) ==
    IF emoji \in DOMAIN complexityMap THEN complexityMap[emoji] ELSE 15

\* the class [!@#$%^&*()_+\-=\[\]{};':"\\|,.<>\/?]
SpecialChars == {33, 64, 35, 36, 37, 94, 38, 42, 40, 41, 95, 43, 45, 61, 91,
                 93, 123, 125, 59, 39, 58, 34, 92, 124, 44, 46, 60, 62, 47, 63}

\* the if / else-if chain of the character loop
CharComplexity(c) ==
    IF c >= 65 /\ c <= 90 THEN 1
    ELSE IF c >= 97 /\ c <= 122 THEN 2
    ELSE IF c >= 48 /\ c <= 57 THEN 1
    ELSE IF c \in SpecialChars THEN 5
    ELSE 3

getTextComplexityUncapped(text) ==
    LET lengthPenalty == JSLength(text) * 2
        charPenalty == SumSeq([i \in 1..Len(text) |-> CharComplexity(text[i])])
        uniqueChars == Cardinality({text[i] : i \in 1..Len(text)})
    IN lengthPenalty + charPenalty - (IF uniqueChars = 1 THEN 5 ELSE 0)

getTextComplexity(text) ==
    LET lengthPenalty == JSLength(text) * 2
        charPenalty == SumSeq([i \in 1..Len(text) |-> CharComplexity(text[i])])
        uniqueChars == Cardinality({text[i] : i \in 1..Len(text)})
        complexity == lengthPenalty + charPenalty
                        - (IF uniqueChars = 1 THEN 5 ELSE 0)
    IN Min(complexity, 25)

\* metadata is the uploaded file's record; lib is the `sharp` binding
getImageComplexityNoSize(lib, metadata) ==
    IF ~lib THEN 15
    ELSE IF ~metadata.readable THEN 15
    ELSE 10
         + (IF metadata.format = "gif" THEN 8
            ELSE IF metadata.format = "webp" THEN 3 ELSE 0)

getImageComplexity(lib, metadata) ==
    IF ~lib THEN 15
    ELSE IF ~metadata.readable THEN 15
    ELSE 10
         + (IF metadata.width > 1000 \/ metadata.height > 1000 THEN 5 ELSE 0)
         + (IF metadata.format = "gif" THEN 8
            ELSE IF metadata.format = "webp" THEN 3 ELSE 0)

\* BitMatrix.get(row, col) of the matrices of the model: the first
\* m.dark cells in row-major order are dark
get(m, row, col) == row * m.size + col < m.dark

getQRComplexitySizeGE(m, size) ==
    LET sizePenalty == IF size >= 25 THEN 10 ELSE IF size > 20 THEN 5 ELSE 0
        filledCells == Cardinality({rc \in (0..(size - 1)) \X (0..(size - 1)) :
                                        get(m, rc[1], rc[2])})
    IN sizePenalty
       + (IF filledCells * 10 > 7 * size * size THEN 8
          ELSE IF filledCells * 10 < 3 * size * size THEN 5 ELSE 0)

\* density = filledCells / (size * size) is compared with 0.7 and 0.3; the
\* quotient of two integers below 2^53 is rounded correctly, so the
\* comparisons agree with the exact ones on integers
getQRComplexity(m, size) ==
    LET sizePenalty == IF size > 25 THEN 10 ELSE IF size > 20 THEN 5 ELSE 0
        filledCells == Cardinality({rc \in (0..(size - 1)) \X (0..(size - 1)) :
                                        get(m, rc[1], rc[2])})
    IN sizePenalty
       + (IF filledCells * 10 > 7 * size * size THEN 8
          ELSE IF filledCells * 10 < 3 * size * size THEN 5 ELSE 0)

----------------------------------------------------------------------------
(* The collaborators: URL parsing and the QR encoder *)

\* a URL whose payload exceeds the capacity of the largest QR symbol
UrlTooLong == "https://example.com/?q=too-long-for-a-qr-symbol"

\* the module matrix QRCode.create(url).modules of each encodable URL
QRModules ==
    ("https://a.io" :> [size |-> 21, dark |-> 220]) @@
    ("https://example.com/sparse" :> [size |-> 25, dark |-> 156]) @@
    ("https://example.com/a/longer/path" :> [size |-> 29, dark |-> 420]) @@
    ("https://example.com/a/dense/path" :> [size |-> 29, dark |-> 631])

UrlParsesAny(url) == url # ""

\* new URL(url) does not throw
UrlParses(url) == url \in DOMAIN QRModules \cup {UrlTooLong}

\* QRCode.create / QRCode.toDataURL throw on this payload
EncoderThrows(url) == url \notin DOMAIN QRModules

Urls == {"", "not a url", UrlTooLong} \cup DOMAIN QRModules

\* the matrices handed to getQRComplexity on its own: version v has side
\* 17 + 4v, and the dark share runs over the percentages below
Percents == {0, 25, 29, 30, 31, 50, 69, 70, 71, 75, 100}

QRMatrices ==
    {[size |-> 17 + 4 * v, dark |-> (p * (17 + 4 * v) * (17 + 4 * v)) \div 100] :
        v \in 1..MaxVersion, p \in Percents}

\* the uploads of the model: the metadata sharp reads from the stored file
Files ==
    {[width |-> 500, height |-> 500, format |-> "png", readable |-> TRUE],
     [width |-> 500, height |-> 1001, format |-> "png", readable |-> TRUE],
     [width |-> 1000, height |-> 1000, format |-> "gif", readable |-> TRUE],
     [width |-> 2000, height |-> 2000, format |-> "gif", readable |-> TRUE],
     [width |-> 500, height |-> 500, format |-> "webp", readable |-> TRUE],
     [width |-> 1001, height |-> 500, format |-> "webp", readable |-> TRUE],
     [width |-> 0, height |-> 0, format |-> "png", readable |-> FALSE]}

Bodies ==
    [url : Urls, emoji : {<<>>, <<128153>>}, customText : Texts,
     useCustomPattern : {"true", "false"}]

NoBody == [url |-> "", emoji |-> <<>>, customText |-> <<>>,
           useCustomPattern |-> "false"]

\* the initial values of the useState hooks of App
NoForm == [url |-> "", error |-> "", selectedEmoji |-> <<>>,
           customText |-> <<>>, uploadedFile |-> <<>>,
           useCustomPattern |-> FALSE]

\* no second request has arrived
NoPeer == [pc |-> "idle", collides |-> FALSE, file |-> <<>>]

----------------------------------------------------------------------------
(* Rendering *)

StandardImage == [mode |-> "standard", glyph |-> <<>>]

\* the render step threw instead of returning an image
Thrown == [mode |-> "thrown", glyph |-> <<>>]

\* the renderers as the older copy of the server has them: a failure of the
\* custom rendering is rethrown
generateCustomQRCodeRethrow(customText, uploadedFile, fault) ==
    IF customText # <<>>
    THEN IF containsEmoji(customText)
         THEN IF fault THEN Thrown
              ELSE IF ~sharp THEN StandardImage
              ELSE [mode |-> "emoji", glyph |-> extractFirstEmoji(customText)]
         ELSE IF fault THEN Thrown
              ELSE IF ~sharp THEN StandardImage
              ELSE [mode |-> "text", glyph |-> customText]
    ELSE IF uploadedFile # <<>>
         THEN IF fault \/ (sharp /\ ~uploadedFile[1].readable) THEN Thrown
              ELSE IF ~sharp THEN StandardImage
              ELSE [mode |-> "image", glyph |-> <<>>]
         ELSE StandardImage

\* generateEmojiQRCode / generateTextQRCode / generateImageQRCode for an
\* encodable URL: the custom image, or the standard one when sharp is
\* missing or the custom rendering throws (fault: a step of it failed, as
\* the SVG-to-PNG conversion does on a caption that breaks the markup)
generateCustomQRCode(customText, uploadedFile, fault) ==
    IF customText # <<>>
    THEN IF containsEmoji(customText)
         THEN IF ~sharp \/ fault THEN StandardImage
              ELSE [mode |-> "emoji", glyph |-> extractFirstEmoji(customText)]
         ELSE IF ~sharp \/ fault THEN StandardImage
              ELSE [mode |-> "text", glyph |-> customText]
    ELSE IF uploadedFile # <<>>
         THEN IF ~sharp \/ fault \/ ~uploadedFile[1].readable THEN StandardImage
              ELSE [mode |-> "image", glyph |-> <<>>]
         ELSE StandardImage

\* the custom renderer returns from its `if (!sharp)` branch or from its
\* catch: sharp is missing, a step threw, or the upload cannot be decoded
rendererFallsBack(uploadedFile, fault) ==
    \/ ~sharp
    \/ fault
    \/ (body.customText = <<>> /\ uploadedFile # <<>>
        /\ ~uploadedFile[1].readable)

----------------------------------------------------------------------------
(* Scoring *)

isReadableGT(score) == score > 70

\* isReadable: readabilityScore >= 70
isReadable(score) == score >= 70

EmojiWarning(firstEmoji) == <<[kind |-> "emoji", subject |-> firstEmoji]>>
TextWarning(customText) == <<[kind |-> "text", subject |-> customText]>>
ImageWarning == <<[kind |-> "image", subject |-> <<>>]>>
ComplexityWarning == <<[kind |-> "complexity", subject |-> <<>>]>>

finalWarningKeepFirst(final, warn) ==
    IF warn # <<>> THEN warn
    ELSE IF final < 50 THEN ComplexityWarning ELSE <<>>

finalWarningFlipped(final, warn) ==
    IF final > 50 THEN ComplexityWarning ELSE warn

\* the last assignment of warning: the generic warning overwrites any other
finalWarning(final, warn) == IF final < 50 THEN ComplexityWarning ELSE warn

\* the tail of validateQRCodeReadability: matrix penalty, generic warning,
\* verdict
ScoreMatrix(score, warn) ==
    LET qr == getQRComplexity(matrix'[1], matrix'[1].size)
        final == score - qr
        w == finalWarning(final, warn)
    IN /\ qrComplexity' = <<qr>>
       /\ readabilityScore' = final
       /\ warning' = w
       /\ validationResult' = <<[isReadable |-> isReadable(final), warning |-> w]>>

----------------------------------------------------------------------------
(* The request handler of POST /api/generate-qr *)

Blank ==
    /\ body = NoBody
    /\ file = <<>>
    /\ uploaded = FALSE
    /\ qrCodeDataURL = <<>>
    /\ readabilityScore = 100
    /\ warning = <<>>
    /\ emojiComplexity = <<>>
    /\ textComplexity = <<>>
    /\ imageComplexity = <<>>
    /\ qrComplexity = <<>>
    /\ validationResult = <<>>
    /\ response = <<>>
    /\ fellBack = FALSE
    /\ ret = <<>>
    /\ ui = NoForm
    /\ peer = NoPeer

Init ==
    /\ sharp \in BOOLEAN
    /\ pc = "idle"
    /\ matrix = <<>>
    /\ Blank

\* what sharp(req.file.path) finds at the path of the upload: nothing
\* decodable once the path is unlinked, the upload of the other request when
\* that one was stored under the same name, else the upload itself
StoredFile ==
    IF file = <<>> THEN <<>>
    ELSE IF ~uploaded THEN <<[file[1] EXCEPT !.readable = FALSE]>>
    ELSE IF peer.pc # "idle" /\ peer.collides THEN peer.file
    ELSE file

UnlinkedAfterRender == FALSE

\* the render step leaves the upload on disk: the handler unlinks it only
\* after the scorer has returned
UploadAfterRender == uploaded

StartScoreKept == readabilityScore

\* let readabilityScore = 100: every call of the scorer starts afresh
StartScore == 100

ErrorResponse(status, error) ==
    <<[status |-> status, error |-> error, qrCode |-> <<>>,
       isReadable |-> <<>>, warning |-> <<>>]>>

\* a request arrives; multer has stored the upload, if any, on disk
ReceiveRequest ==
    /\ pc = "idle"
    /\ \E b \in Bodies, f \in {<<>>} \cup {<<m>> : m \in Files} :
          /\ body' = b
          /\ file' = f
          /\ uploaded' = (f # <<>>)
    /\ pc' = "handler"
    /\ UNCHANGED <<ui, peer, fellBack, ret, sharp, qrCodeDataURL, matrix, readabilityScore, warning,
                   emojiComplexity, textComplexity, imageComplexity,
                   qrComplexity, validationResult, response>>

\* the URL checks
CheckUrl ==
    /\ pc = "handler"
    /\ IF body.url = ""
       THEN /\ response' = ErrorResponse(400, "URL is required")
            /\ pc' = "done"
       ELSE IF ~UrlParses(body.url)
       THEN /\ response' = ErrorResponse(400, "Invalid URL format")
            /\ pc' = "done"
       ELSE /\ response' = response
            /\ pc' = "render"
    /\ UNCHANGED <<ui, peer, fellBack, ret, sharp, body, file, uploaded, qrCodeDataURL, matrix,
                   readabilityScore, warning, emojiComplexity, textComplexity,
                   imageComplexity, qrComplexity, validationResult>>

CustomRequestedAnyFlag == body.customText # <<>> \/ file # <<>>

\* the handler takes the custom branch of the render step
CustomRequested ==
    body.useCustomPattern = "true" /\ (body.customText # <<>> \/ file # <<>>)

\* the render step; an unencodable URL makes every path throw, down to the
\* handler's catch
GenerateQR ==
    /\ pc = "render"
    /\ IF EncoderThrows(body.url)
       THEN /\ response' = ErrorResponse(500, "Failed to generate QR code")
            /\ qrCodeDataURL' = qrCodeDataURL
            /\ fellBack' = fellBack
            /\ pc' = "done"
       ELSE IF CustomRequested
       THEN \E fault \in BOOLEAN :
              LET image ==
                      generateCustomQRCode(body.customText, StoredFile, fault)
              IN /\ fellBack' = rendererFallsBack(StoredFile, fault)
                 /\ IF image = Thrown
                    THEN /\ response' =
                              ErrorResponse(500, "Failed to generate QR code")
                         /\ qrCodeDataURL' = qrCodeDataURL
                         /\ pc' = "done"
                    ELSE /\ response' = response
                         /\ qrCodeDataURL' = <<image>>
                         /\ pc' = "validate"
       ELSE /\ qrCodeDataURL' = <<StandardImage>>
            /\ fellBack' = fellBack
            /\ response' = response
            /\ pc' = "validate"
    /\ uploaded' = UploadAfterRender
    /\ UNCHANGED <<ui, peer, ret, sharp, body, file, matrix, readabilityScore,
                   warning, emojiComplexity, textComplexity, imageComplexity,
                   qrComplexity, validationResult>>

\* validateQRCodeReadability up to the await of getImageComplexity, or up
\* to its return when there is no upload
ValidateContent ==
    /\ pc = "validate"
    /\ matrix' = <<QRModules[body.url]>>
    /\ LET customText == body.customText
           firstEmoji == extractFirstEmoji(customText)
           isEmoji == customText # <<>> /\ containsEmoji(customText)
           isText == customText # <<>> /\ ~containsEmoji(customText)
           penalty == IF isEmoji THEN getEmojiComplexity(firstEmoji)
                      ELSE IF isText THEN getTextComplexity(customText)
                      ELSE 0
           score == StartScore - penalty
           warn == IF isEmoji /\ score < 70 THEN EmojiWarning(firstEmoji)
                   ELSE IF isText /\ score < 70 THEN TextWarning(customText)
                   ELSE <<>>
       IN /\ emojiComplexity' = IF isEmoji THEN <<penalty>> ELSE <<>>
          /\ textComplexity' = IF isText THEN <<penalty>> ELSE <<>>
          /\ IF file # <<>>
             THEN /\ readabilityScore' = score
                  /\ warning' = warn
                  /\ pc' = "validateImage"
                  /\ UNCHANGED <<qrComplexity, validationResult>>
             ELSE /\ ScoreMatrix(score, warn)
                  /\ pc' = "respond"
    /\ UNCHANGED <<ui, peer, fellBack, ret, sharp, body, file, uploaded, qrCodeDataURL,
                   imageComplexity, response>>

\* validateQRCodeReadability from the image penalty to its return
ValidateImage ==
    /\ pc = "validateImage"
    /\ LET metadata == StoredFile[1]
           penalty == getImageComplexity(sharp, metadata)
           score == readabilityScore - penalty
           warn == IF score < 70 THEN ImageWarning ELSE warning
       IN /\ imageComplexity' = <<penalty>>
          /\ matrix' = matrix
          /\ ScoreMatrix(score, warn)
    /\ pc' = "respond"
    /\ UNCHANGED <<ui, peer, fellBack, ret, sharp, body, file, uploaded, qrCodeDataURL,
                   emojiComplexity, textComplexity, response>>

FailClosedVerdict == [isReadable |-> FALSE, warning |-> ComplexityWarning]

\* the object returned by the catch of validateQRCodeReadability
FailOpenVerdict == [isReadable |-> TRUE, warning |-> <<>>]

\* the catch of validateQRCodeReadability: any step that throws yields the
\* fail-open verdict
ValidateFailOpen ==
    /\ pc \in {"validate", "validateImage"}
    /\ validationResult' = <<FailOpenVerdict>>
    /\ pc' = "respond"
    /\ UNCHANGED <<ui, peer, fellBack, ret, sharp, body, file, uploaded, qrCodeDataURL, matrix,
                   readabilityScore, warning, emojiComplexity, textComplexity,
                   imageComplexity, qrComplexity, response>>

\* the upload is unlinked, then the success response is sent
SendResponse ==
    /\ pc = "respond"
    /\ uploaded' = FALSE
    /\ response' = <<[status |-> 200, error |-> "", qrCode |-> qrCodeDataURL,
                      isReadable |-> <<validationResult[1].isReadable>>,
                      warning |-> validationResult[1].warning]>>
    /\ pc' = "done"
    /\ UNCHANGED <<ui, peer, fellBack, ret, sharp, body, file, qrCodeDataURL, matrix, readabilityScore,
                   warning, emojiComplexity, textComplexity, imageComplexity,
                   qrComplexity, validationResult>>

Next ==
    \/ ReceiveRequest
    \/ CheckUrl
    \/ GenerateQR
    \/ ValidateContent
    \/ ValidateImage
    \/ ValidateFailOpen
    \/ SendResponse

Spec == Init /\ [][Next]_vars

----------------------------------------------------------------------------
(* getQRComplexity on its own, over the matrices of QR versions 1..MaxVersion *)

InitQR ==
    /\ sharp = TRUE
    /\ pc = "getQRComplexity"
    /\ matrix \in {<<m>> : m \in QRMatrices}
    /\ Blank

CallGetQRComplexity ==
    /\ pc = "getQRComplexity"
    /\ qrComplexity' = <<getQRComplexity(matrix[1], matrix[1].size)>>
    /\ pc' = "returned"
    /\ UNCHANGED <<ui, peer, fellBack, ret, sharp, body, file, uploaded, qrCodeDataURL, matrix,
                   readabilityScore, warning, emojiComplexity, textComplexity,
                   imageComplexity, validationResult, response>>

NextQR == CallGetQRComplexity

SpecQR == InitQR /\ [][NextQR]_vars

----------------------------------------------------------------------------
(* The layout and the SVG of the custom renderers, called on their own *)

\* the width in Math.floor(300 / size)
TargetSize == 300

\* const margin = 2
Margin == 2

\* the largest matrix side handed to the layout computation
MaxSide == 300

\* the QR versions whose matrices are rendered
MaxRenderVersion == 2

cellSizeCeil(size) == (TargetSize + size - 1) \div size

\* const cellSize = Math.floor(300 / size)
cellSizeOf(size) == TargetSize \div size

\* const totalSize = size * cellSize + (margin * 2)
computeLayout(size) ==
    [cellSize |-> cellSizeOf(size), margin |-> Margin,
     totalSize |-> size * cellSizeOf(size) + (Margin * 2)]

\* Math.floor(cellSize * 0.6) for text, Math.floor(cellSize * 0.8) for emoji
fontSizeOf(mode, cellSize) ==
    IF mode = "text" THEN (cellSize * 6) \div 10
    ELSE IF mode = "emoji" THEN (cellSize * 8) \div 10
    ELSE 0

\* one SVG element.  x, y are the pixel origin the element is computed
\* from; its x and y attributes are x + dx6/6 and y + dy6/6
Element(tag, x, y, dx6, dy6, width, height, content) ==
    [tag |-> tag, x |-> x, y |-> y, dx6 |-> dx6, dy6 |-> dy6,
     width |-> width, height |-> height, content |-> content]

\* the element painted for the dark cell whose pixel origin is (x, y)
CellElement(mode, glyph, x, y, cellSize) ==
    IF mode = "image"
    THEN Element("rect", x, y, 0, 0, cellSize, cellSize, <<>>)
    ELSE Element("text", x, y, 3 * cellSize,
                 3 * cellSize + 2 * fontSizeOf(mode, cellSize), 0, 0, glyph)

\* the cells in the order of the two nested loops: rows, then columns
RowMajor(size) ==
    [i \in 1..(size * size) |-> <<(i - 1) \div size, (i - 1) % size>>]

renderSvgTransposed(mode, glyph, m) ==
    LET size == m.size
        layout == computeLayout(size)
        darkCells == SelectSeq(RowMajor(size), LAMBDA rc : get(m, rc[1], rc[2]))
        background == Element("rect", 0, 0, 0, 0, layout.totalSize,
                              layout.totalSize, <<>>)
        defs == IF mode = "image"
                THEN <<Element("pattern", 0, 0, 0, 0, layout.cellSize,
                               layout.cellSize, <<>>)>>
                ELSE <<>>
    IN <<background>> \o defs \o
       [k \in 1..Len(darkCells) |->
           CellElement(mode, glyph,
                       layout.margin + darkCells[k][1] * layout.cellSize,
                       layout.margin + darkCells[k][2] * layout.cellSize,
                       layout.cellSize)]

\* the SVG built by generateTextQRCode, generateEmojiQRCode and
\* generateImageQRCode: background, the pattern definition (image mode),
\* then one element per dark cell
renderSvg(mode, glyph, m) ==
    LET size == m.size
        layout == computeLayout(size)
        darkCells == SelectSeq(RowMajor(size), LAMBDA rc : get(m, rc[1], rc[2]))
        background == Element("rect", 0, 0, 0, 0, layout.totalSize,
                              layout.totalSize, <<>>)
        defs == IF mode = "image"
                THEN <<Element("pattern", 0, 0, 0, 0, layout.cellSize,
                               layout.cellSize, <<>>)>>
                ELSE <<>>
    IN <<background>> \o defs \o
       [k \in 1..Len(darkCells) |->
           CellElement(mode, glyph,
                       layout.margin + darkCells[k][2] * layout.cellSize,
                       layout.margin + darkCells[k][1] * layout.cellSize,
                       layout.cellSize)]

InitLayout ==
    /\ sharp = TRUE
    /\ pc = "computeLayout"
    /\ matrix \in {<<[size |-> n, dark |-> 0]>> : n \in 1..MaxSide}
    /\ Blank

CallComputeLayout ==
    /\ pc = "computeLayout"
    /\ ret' = <<computeLayout(matrix[1].size)>>
    /\ pc' = "layoutReturned"
    /\ UNCHANGED <<ui, peer, sharp, body, file, uploaded, qrCodeDataURL, matrix,
                   readabilityScore, warning, emojiComplexity, textComplexity,
                   imageComplexity, qrComplexity, validationResult, response,
                   fellBack>>

NextLayout == CallComputeLayout

SpecLayout == InitLayout /\ [][NextLayout]_vars

\* the three custom requests whose SVG is built: a caption, an emoji, an
\* upload
RenderRequests ==
    {[customText |-> <<65, 66>>, file |-> <<>>],
     [customText |-> <<128153>>, file |-> <<>>],
     [customText |-> <<>>,
      file |-> <<[width |-> 500, height |-> 500, format |-> "png",
                  readable |-> TRUE]>>]}

RenderMatrices ==
    {[size |-> 17 + 4 * v, dark |-> (p * (17 + 4 * v) * (17 + 4 * v)) \div 100] :
        v \in 1..MaxRenderVersion, p \in Percents}

InitRender ==
    /\ sharp = TRUE
    /\ pc = "renderSvg"
    /\ matrix \in {<<m>> : m \in RenderMatrices}
    /\ \E r \in RenderRequests :
          /\ body = [url |-> "https://a.io", emoji |-> <<>>,
                     customText |-> r.customText, useCustomPattern |-> "true"]
          /\ file = r.file
    /\ uploaded = (file # <<>>)
    /\ qrCodeDataURL = <<>>
    /\ readabilityScore = 100
    /\ warning = <<>>
    /\ emojiComplexity = <<>>
    /\ textComplexity = <<>>
    /\ imageComplexity = <<>>
    /\ qrComplexity = <<>>
    /\ validationResult = <<>>
    /\ response = <<>>
    /\ fellBack = FALSE
    /\ ret = <<>>
    /\ ui = NoForm
    /\ peer = NoPeer

CallRenderSvg ==
    /\ pc = "renderSvg"
    /\ LET image == generateCustomQRCode(body.customText, file, FALSE)
       IN /\ qrCodeDataURL' = <<image>>
          /\ ret' = <<renderSvg(image.mode, image.glyph, matrix[1])>>
    /\ pc' = "svgReturned"
    /\ UNCHANGED <<ui, peer, sharp, body, file, uploaded, matrix, readabilityScore,
                   warning, emojiComplexity, textComplexity, imageComplexity,
                   qrComplexity, validationResult, response, fellBack>>

NextRender == CallRenderSvg

SpecRender == InitRender /\ [][NextRender]_vars

----------------------------------------------------------------------------
(* containsEmoji and extractFirstEmoji, called on their own *)

EmojiTexts ==
    UNION {[1..n -> Alphabet] : n \in 0..(MaxShortLen + 1)} \cup LongTexts

InitEmoji ==
    /\ sharp = TRUE
    /\ pc = "extractFirstEmoji"
    /\ matrix = <<>>
    /\ body \in [url : {"https://a.io"}, emoji : {<<>>},
                 customText : EmojiTexts, useCustomPattern : {"true"}]
    /\ file = <<>>
    /\ uploaded = FALSE
    /\ qrCodeDataURL = <<>>
    /\ readabilityScore = 100
    /\ warning = <<>>
    /\ emojiComplexity = <<>>
    /\ textComplexity = <<>>
    /\ imageComplexity = <<>>
    /\ qrComplexity = <<>>
    /\ validationResult = <<>>
    /\ response = <<>>
    /\ fellBack = FALSE
    /\ ret = <<>>
    /\ ui = NoForm
    /\ peer = NoPeer

CallExtractFirstEmoji ==
    /\ pc = "extractFirstEmoji"
    /\ ret' = <<[contains |-> containsEmoji(body.customText),
                 first |-> extractFirstEmoji(body.customText)]>>
    /\ pc' = "emojiReturned"
    /\ UNCHANGED <<ui, peer, sharp, body, file, uploaded, qrCodeDataURL, matrix,
                   readabilityScore, warning, emojiComplexity, textComplexity,
                   imageComplexity, qrComplexity, validationResult, response,
                   fellBack>>

NextEmoji == CallExtractFirstEmoji

SpecEmoji == InitEmoji /\ [][NextEmoji]_vars

----------------------------------------------------------------------------
(* The React component App (src/QR/REACT/src/App.jsx): the form state,    *)
(* its event handlers and the form it posts.  `ui` is the component       *)
(* state; the posted form is the body and the file the server receives.   *)

\* what can be typed into the URL field: the URLs of the model and a blank
UiUrls == Urls \cup {" "}

\* String.prototype.trim on the URLs of the model
trim(u) == IF u = " " THEN "" ELSE u

\* maxLength of the text field
MaxLength == 10

\* what the text field can hold
UiTexts == {t \in Texts : JSLength(t) <= MaxLength}

\* the arguments handleEmojiSelect is given
UiEmojis == {<<10084>>, <<128153>>}

\* an event handler changes the component state only
FormOnly ==
    UNCHANGED <<pc, sharp, body, file, uploaded, qrCodeDataURL, matrix,
                readabilityScore, warning, emojiComplexity, textComplexity,
                imageComplexity, qrComplexity, validationResult, response,
                fellBack, ret, peer>>

setUrl(value) ==
    /\ pc = "ui"
    /\ ui' = [ui EXCEPT !.url = value]
    /\ FormOnly

setUseCustomPattern(checked) ==
    /\ pc = "ui"
    /\ ui' = [ui EXCEPT !.useCustomPattern = checked]
    /\ FormOnly

\* the handler of the component with the file input alone: it sets the
\* file and clears nothing
handleFileUploadOnly(files) ==
    /\ pc = "ui"
    /\ ui' = IF files # <<>>
             THEN [ui EXCEPT !.uploadedFile = <<files[1]>>]
             ELSE ui
    /\ FormOnly

\* files is e.target.files: empty when the file dialog was cancelled
handleFileUpload(files) ==
    /\ pc = "ui"
    /\ ui' = IF files # <<>>
             THEN [ui EXCEPT !.uploadedFile = <<files[1]>>,
                             !.selectedEmoji = <<>>,
                             !.customText = <<>>]
             ELSE ui
    /\ FormOnly

handleEmojiSelect(emoji) ==
    /\ pc = "ui"
    /\ ui' = [ui EXCEPT !.selectedEmoji = emoji,
                        !.uploadedFile = <<>>,
                        !.customText = <<>>]
    /\ FormOnly

handleTextChange(text) ==
    /\ pc = "ui"
    /\ ui' = [ui EXCEPT !.customText = text,
                        !.selectedEmoji = <<>>,
                        !.uploadedFile = <<>>]
    /\ FormOnly

\* the submit handler up to axios.post: a blank URL is refused in the
\* browser, else the form is built and posted
generateQRCode ==
    /\ pc = "ui"
    /\ IF trim(ui.url) = ""
       THEN /\ ui' = [ui EXCEPT !.error = "Please enter a URL"]
            /\ UNCHANGED <<pc, body, file>>
       ELSE /\ ui' = [ui EXCEPT !.error = ""]
            /\ body' =
                  [url |-> trim(ui.url),
                   useCustomPattern |->
                       IF ui.useCustomPattern THEN "true" ELSE "false",
                   emoji |-> IF ui.useCustomPattern
                             THEN ui.selectedEmoji ELSE <<>>,
                   customText |-> IF ui.useCustomPattern
                                  THEN ui.customText ELSE <<>>]
            /\ file' = IF ui.useCustomPattern THEN ui.uploadedFile ELSE <<>>
            /\ pc' = "posted"
    /\ UNCHANGED <<sharp, uploaded, qrCodeDataURL, matrix, readabilityScore,
                   warning, emojiComplexity, textComplexity, imageComplexity,
                   qrComplexity, validationResult, response, fellBack, ret,
                   peer>>

InitUI ==
    /\ sharp = TRUE
    /\ pc = "ui"
    /\ matrix = <<>>
    /\ Blank

NextUI ==
    \/ \E value \in UiUrls : setUrl(value)
    \/ \E checked \in BOOLEAN : setUseCustomPattern(checked)
    \/ \E files \in {<<>>} \cup {<<m>> : m \in Files} : handleFileUpload(files)
    \/ \E emoji \in UiEmojis : handleEmojiSelect(emoji)
    \/ \E text \in UiTexts : handleTextChange(text)
    \/ generateQRCode

SpecUI == InitUI /\ [][NextUI]_vars

----------------------------------------------------------------------------
(* validateQRCodeReadability called twice with the same arguments: the    *)
(* URL, the custom text and the upload of the request, the upload still   *)
(* on disk.  A step of the scorer that throws is a fault of its           *)
(* environment, not one of its arguments, and is left out here.           *)

\* the requests that reach the scorer, which is given the URL, the custom
\* text and the file: those with a URL the encoder takes
ScoredBodies ==
    [url : DOMAIN QRModules, emoji : {<<>>}, customText : Texts,
     useCustomPattern : {"true"}]

ReceiveScored ==
    /\ pc = "idle"
    /\ \E b \in ScoredBodies, f \in {<<>>} \cup {<<m>> : m \in Files} :
          /\ body' = b
          /\ file' = f
          /\ uploaded' = (f # <<>>)
    /\ pc' = "handler"
    /\ UNCHANGED <<ui, peer, fellBack, ret, sharp, qrCodeDataURL, matrix,
                   readabilityScore, warning, emojiComplexity, textComplexity,
                   imageComplexity, qrComplexity, validationResult, response>>

\* the first verdict is kept aside and the scorer is entered again
ValidateAgain ==
    /\ pc = "respond"
    /\ ret = <<>>
    /\ ret' = validationResult
    /\ pc' = "validate"
    /\ UNCHANGED <<ui, peer, fellBack, sharp, body, file, uploaded,
                   qrCodeDataURL, matrix, readabilityScore, warning,
                   emojiComplexity, textComplexity, imageComplexity,
                   qrComplexity, validationResult, response>>

NextTwice ==
    \/ ReceiveScored
    \/ CheckUrl
    \/ GenerateQR
    \/ ValidateContent
    \/ ValidateImage
    \/ ValidateAgain

SpecTwice == Init /\ [][NextTwice]_vars

----------------------------------------------------------------------------
(* Two requests in flight.  The handler keeps no state between requests;  *)
(* what two requests share is the uploads directory.  multer names an     *)
(* upload fieldname-Date.now()-Math.round(Math.random() * 1E9) + ext, so  *)
(* two uploads of the same millisecond that draw the same number get the  *)
(* same path.  The first request is followed step by step; of the second  *)
(* only what it does to the directory is kept.                            *)

\* the requests followed while a second one is in flight
PairBodies ==
    [url : {"", "https://a.io", "https://example.com/a/dense/path"},
     emoji : {<<>>}, customText : {<<>>, TenUpper},
     useCustomPattern : {"true", "false"}]

\* the uploads of the second request
PeerFiles ==
    {[width |-> 500, height |-> 500, format |-> "png", readable |-> TRUE],
     [width |-> 2000, height |-> 2000, format |-> "gif", readable |-> TRUE]}

\* the first request arrives with an upload
ReceiveUpload ==
    /\ pc = "idle"
    /\ \E b \in PairBodies, m \in Files :
          /\ body' = b
          /\ file' = <<m>>
    /\ uploaded' = TRUE
    /\ pc' = "handler"
    /\ UNCHANGED <<ui, peer, fellBack, ret, sharp, qrCodeDataURL, matrix,
                   readabilityScore, warning, emojiComplexity, textComplexity,
                   imageComplexity, qrComplexity, validationResult, response>>

\* the second request arrives in the same millisecond and multer stores
\* its upload; collides: Math.random gave it the number of the first, and
\* the file at that path now holds the second upload
PeerReceive ==
    /\ pc = "handler"
    /\ peer.pc = "idle"
    /\ \E c \in BOOLEAN, m \in PeerFiles :
          peer' = [pc |-> "handler", collides |-> c, file |-> <<m>>]
    /\ UNCHANGED <<ui, fellBack, ret, sharp, pc, body, file, uploaded,
                   qrCodeDataURL, matrix, readabilityScore, warning,
                   emojiComplexity, textComplexity, imageComplexity,
                   qrComplexity, validationResult, response>>

\* the handler of the second request reaches its fs.unlinkSync and answers
PeerRespond ==
    /\ peer.pc = "handler"
    /\ peer' = [peer EXCEPT !.pc = "done"]
    /\ uploaded' = IF peer.collides THEN FALSE ELSE uploaded
    /\ UNCHANGED <<ui, fellBack, ret, sharp, pc, body, file, qrCodeDataURL,
                   matrix, readabilityScore, warning, emojiComplexity,
                   textComplexity, imageComplexity, qrComplexity,
                   validationResult, response>>

NextPair ==
    \/ ReceiveUpload
    \/ CheckUrl
    \/ GenerateQR
    \/ ValidateContent
    \/ ValidateImage
    \/ ValidateFailOpen
    \/ SendResponse
    \/ PeerReceive
    \/ PeerRespond

SpecPair == Init /\ [][NextPair]_vars

----------------------------------------------------------------------------
(* Properties *)

Opt(s) == IF s = <<>> THEN 0 ELSE s[1]

\* the text / emoji part of the scorer has run
ContentScored == pc \in {"validateImage", "respond", "done"} /\ matrix # <<>>

\* the scorer has returned a computed verdict (it did not fail open)
Scored == validationResult # <<>> /\ qrComplexity # <<>>

\* the success response of a computed verdict has been sent
Answered == Scored /\ response # <<>> /\ response[1].status = 200

ContentPenalty ==
    Opt(emojiComplexity) + Opt(textComplexity) + Opt(imageComplexity)

\* C1: the scorer charges the penalty of at most one custom-content
\* variant: never a text or emoji penalty together with an image penalty.
C1_AtMostOneContentPenalty ==
    ~((emojiComplexity # <<>> \/ textComplexity # <<>>)
      /\ imageComplexity # <<>>)

\* C2: when the scorer does not fail, isReadable is true exactly when
\* 100 - content penalty - matrix penalty >= 70, the score unclamped.
C2_VerdictIsThreshold ==
    Scored =>
        (validationResult[1].isReadable
            <=> (100 - ContentPenalty - qrComplexity[1] >= 70))

C2_Witness ==
    /\ Scored
    /\ 100 - ContentPenalty - qrComplexity[1] = 70
    /\ validationResult[1].isReadable

\* C3: every penalty subtracted is non-negative, so the score never
\* exceeds its starting value of 100.
C3_PenaltiesNonNegative ==
    /\ Opt(emojiComplexity) >= 0
    /\ Opt(textComplexity) >= 0
    /\ Opt(imageComplexity) >= 0
    /\ Opt(qrComplexity) >= 0
    /\ readabilityScore <= 100

CountOf(text, S) == Cardinality({i \in 1..Len(text) : text[i] \in S})

TextPenaltyFormula(text) ==
    LET upper == CountOf(text, 65..90)
        lower == CountOf(text, 97..122)
        digit == CountOf(text, 48..57)
        punct == CountOf(text, SpecialChars)
        other == Len(text) - upper - lower - digit - punct
        same == \A i, j \in 1..Len(text) : text[i] = text[j]
    IN Min(25, 2 * JSLength(text) + upper + 2 * lower + digit + 5 * punct
                 + 3 * other - (IF same THEN 5 ELSE 0))

\* C4: for a non-empty caption of at most 10 characters the text penalty
\* is min(25, 2*length + per-character weights - 5 if all characters are
\* the same), the length being String.length; ten uppercase letters and
\* "aaaaaaaaaa" both give 25.
C4_TextPenalty ==
    (textComplexity # <<>> /\ Len(body.customText) <= 10) =>
        /\ textComplexity[1] = TextPenaltyFormula(body.customText)
        /\ body.customText \in {TenUpper, TenLowerSame} => textComplexity[1] = 25

C4_Witness ==
    /\ body.customText = TenLowerSame
    /\ textComplexity = <<25>>

\* the penalty table keyed by the glyphs themselves
EmojiPenaltyTable ==
    (<<10084, 65039>> :> 5) @@ (<<128153>> :> 5) @@ (<<128154>> :> 5) @@
    (<<128155>> :> 8) @@ (<<128156>> :> 6) @@ (<<128420>> :> 3) @@
    (<<129293>> :> 10) @@ (<<128293>> :> 7) @@ (<<11088>> :> 6) @@
    (<<127775>> :> 8)

\* C5: for a caption that is a glyph of the penalty table the scorer
\* subtracts that glyph's table value as the emoji penalty; for an emoji
\* outside the table it subtracts 15.
C5_EmojiPenaltyFromTable ==
    ContentScored =>
        /\ body.customText \in DOMAIN EmojiPenaltyTable =>
              emojiComplexity = <<EmojiPenaltyTable[body.customText]>>
        /\ (emojiComplexity # <<>>
            /\ \A g \in DOMAIN EmojiPenaltyTable :
                  Head(g) # Head(extractFirstEmoji(body.customText))) =>
              emojiComplexity = <<15>>

\* C6: the image penalty is 10, +5 if a dimension exceeds 1000, +8 for gif
\* or else +3 for webp; 15 if the metadata cannot be read or the image
\* library is missing; so it is one of 10, 13, 15, 18, 20, 23.
C6_ImagePenalty ==
    imageComplexity # <<>> =>
        /\ imageComplexity[1] =
              IF ~sharp \/ ~file[1].readable THEN 15
              ELSE (CASE file[1].format = "gif" -> 18
                      [] file[1].format = "webp" -> 13
                      [] OTHER -> 10)
                   + (IF file[1].width <= 1000 /\ file[1].height <= 1000
                      THEN 0 ELSE 5)
        /\ imageComplexity[1] \in {10, 13, 15, 18, 20, 23}

C6_Witness ==
    /\ imageComplexity = <<23>>
    /\ file[1].format = "gif"
    /\ file[1].width = 2000

\* C7: the matrix penalty is (10 if size > 25, else 5 if size > 20, else 0)
\* plus (8 if more than 0.7 of the cells are dark, else 5 if fewer than
\* 0.3 are); size 29 at 75% dark gives 18, and it never exceeds 18.
C7_MatrixPenalty ==
    (qrComplexity # <<>> /\ matrix # <<>>) =>
        LET size == matrix[1].size
            dark == matrix[1].dark
            sizeTerm == CASE size > 25 -> 10 [] size \in 21..25 -> 5 [] OTHER -> 0
            densityTerm == CASE 10 * dark > 7 * size * size -> 8
                             [] 10 * dark < 3 * size * size -> 5
                             [] OTHER -> 0
        IN /\ qrComplexity[1] = sizeTerm + densityTerm
           /\ qrComplexity[1] <= 18
           /\ (size = 29 /\ dark = 630) => qrComplexity[1] = 18

C7_Witness ==
    /\ pc = "returned"
    /\ matrix[1].size = 29
    /\ matrix[1].dark = 630
    /\ qrComplexity = <<18>>

\* C8: a text-only request with the caption of ten special characters and
\* a matrix larger than 25 is answered isReadable = false with a warning
\* that names the text.
C8_TextWarning ==
    (Answered /\ body.customText = TenSpecial /\ file = <<>>
        /\ matrix[1].size > 25) =>
        /\ response[1].isReadable = <<FALSE>>
        /\ response[1].warning = TextWarning(TenSpecial)

\* C9: an image-only request with a 2000x2000 GIF (image penalty 23) is
\* answered with a non-null warning, whatever the matrix.
C9_ImageWarning ==
    (Answered /\ body.customText = <<>> /\ imageComplexity = <<23>>
        /\ file[1].format = "gif" /\ file[1].width = 2000
        /\ file[1].height = 2000) =>
        response[1].warning # <<>>

\* C10: the warning is the generic one if the final score is below 50;
\* otherwise the content warning of the content whose subtraction left the
\* running score below 70, the image one before the text or emoji one;
\* otherwise null.
C10_WarningPrecedence ==
    Scored =>
        LET afterCaption == 100 - Opt(emojiComplexity) - Opt(textComplexity)
            afterImage == afterCaption - Opt(imageComplexity)
            final == afterImage - qrComplexity[1]
        IN validationResult[1].warning =
              IF final < 50 THEN ComplexityWarning
              ELSE IF imageComplexity # <<>> /\ afterImage < 70
                   THEN ImageWarning
              ELSE IF emojiComplexity # <<>> /\ afterCaption < 70
                   THEN EmojiWarning(extractFirstEmoji(body.customText))
              ELSE IF textComplexity # <<>> /\ afterCaption < 70
                   THEN TextWarning(body.customText)
              ELSE <<>>

C10_Witness ==
    /\ Scored
    /\ validationResult[1].warning = ComplexityWarning
    /\ textComplexity # <<>>
    /\ imageComplexity # <<>>

\* the render step is over
Rendered == pc \in {"validate", "validateImage", "respond", "done"}

\* C11: a request with a valid URL and no custom content (no customText,
\* no file) gets isReadable = true and warning = null, whatever the matrix.
C11_PlainRequestReadable ==
    (validationResult # <<>> /\ body.customText = <<>> /\ file = <<>>) =>
        /\ validationResult[1].isReadable
        /\ validationResult[1].warning = <<>>
        /\ pc = "done" =>
              /\ response[1].status = 200
              /\ response[1].isReadable = <<TRUE>>
              /\ response[1].warning = <<>>

C11_Witness ==
    /\ Answered
    /\ body.customText = <<>>
    /\ file = <<>>
    /\ qrComplexity = <<18>>
    /\ response[1].isReadable = <<TRUE>>
    /\ response[1].warning = <<>>

\* the scorer ended in its catch: a verdict without a matrix penalty
FailedOpen == validationResult # <<>> /\ qrComplexity = <<>>

\* C12: when a step of the scorer throws, it returns isReadable = true and
\* warning = null, and the request is still answered with success.
C12_ScorerFailsOpen ==
    FailedOpen =>
        /\ validationResult[1].isReadable
        /\ validationResult[1].warning = <<>>
        /\ pc = "done" =>
              /\ response[1].status = 200
              /\ response[1].qrCode = qrCodeDataURL
              /\ response[1].isReadable = <<TRUE>>
              /\ response[1].warning = <<>>

C12_Witness ==
    /\ FailedOpen
    /\ pc = "done"
    /\ body.customText = TenSpecial
    /\ file # <<>>
    /\ response[1].status = 200

\* C13: when a custom renderer fails or the image library is missing, and
\* the URL is encodable, the render step returns the standard image and
\* the request completes with a success response.
C13_RendererFallsBack ==
    /\ (fellBack /\ ~EncoderThrows(body.url)) =>
          /\ Rendered
          /\ qrCodeDataURL = <<StandardImage>>
          /\ pc = "done" => response[1].status = 200
    /\ (pc = "done" /\ CustomRequested /\ UrlParses(body.url)
        /\ ~EncoderThrows(body.url)) => response[1].status = 200

C13_Witness ==
    /\ pc = "done"
    /\ sharp
    /\ fellBack
    /\ CustomRequested
    /\ body.customText = <<>>
    /\ qrCodeDataURL = <<StandardImage>>
    /\ response[1].status = 200

\* C14: whenever a custom renderer falls back to the standard image, the
\* response tells the caller so: it carries a warning, or an image other
\* than the plain standard one.
C14_FallbackIsReported ==
    (pc = "done" /\ fellBack /\ response[1].status = 200) =>
        \/ response[1].warning # <<>>
        \/ response[1].qrCode # <<StandardImage>>

\* the URLs the handler must refuse: missing or empty, or not absolute
InvalidUrls == {"", "not a url"}

\* C19: a request with a missing, empty or unparsable url is answered with
\* status 400 and an error message, and is neither rendered nor scored.
C19_InvalidUrlRejected ==
    (pc = "done" /\ body.url \in InvalidUrls) =>
        /\ response[1].status = 400
        /\ response[1].error # ""
        /\ response[1].qrCode = <<>>
        /\ qrCodeDataURL = <<>>
        /\ matrix = <<>>
        /\ validationResult = <<>>

C19_Witness ==
    /\ pc = "done"
    /\ body.url = "not a url"
    /\ response[1].status = 400
    /\ response[1].error = "Invalid URL format"

\* C20: a request whose custom text is longer than 10 characters is
\* rejected with a validation error and is never rendered or scored.
C20_LongTextRejected ==
    Len(body.customText) > 10 =>
        /\ qrCodeDataURL = <<>>
        /\ validationResult = <<>>
        /\ pc = "done" => response[1].status = 400

\* C15: for every matrix side from 1 to the target width of 300, with
\* margin 2: cellSize >= 1, totalSize >= target - size, and
\* totalSize <= target + 2*margin.
C15_LayoutBounds ==
    (pc = "layoutReturned" /\ matrix[1].size >= 1 /\ matrix[1].size <= 300) =>
        LET size == matrix[1].size
            layout == ret[1]
        IN /\ layout.cellSize >= 1
           /\ layout.cellSize * size <= 300
           /\ (layout.cellSize + 1) * size > 300
           /\ layout.totalSize = size * layout.cellSize + 4
           /\ layout.totalSize >= 300 - size
           /\ layout.totalSize <= 300 + 4

C15_Witness ==
    /\ pc = "layoutReturned"
    /\ matrix[1].size = 29
    /\ ret[1].cellSize = 10
    /\ ret[1].totalSize = 294

\* the elements painted for cells: all but the background and the pattern
\* definition
PaintElements(svg) ==
    SelectSeq(Tail(svg), LAMBDA e : e.tag \in {"text", "rect"})

DarkCount(m) ==
    Cardinality({rc \in (0..(m.size - 1)) \X (0..(m.size - 1)) :
                    get(m, rc[1], rc[2])})

\* C16: in each custom mode the renderer emits the full-canvas background
\* rectangle first and then exactly one paint element per dark cell, in
\* row-major order, at the pixel origin (margin + col*cellSize,
\* margin + row*cellSize); it emits nothing for a light cell.
C16_OnePaintPerDarkCell ==
    pc = "svgReturned" =>
        LET m == matrix[1]
            svg == ret[1]
            cs == 300 \div m.size
            paints == PaintElements(svg)
        IN /\ svg[1].tag = "rect"
           /\ svg[1].x = 0 /\ svg[1].y = 0
           /\ svg[1].width = m.size * cs + 4
           /\ svg[1].height = m.size * cs + 4
           /\ \A k \in 2..Len(svg) :
                 svg[k].tag = "pattern" \/ svg[k].width # svg[1].width
           /\ Len(paints) = DarkCount(m)
           /\ \A k \in 1..Len(paints) :
                 /\ (paints[k].x - 2) % cs = 0
                 /\ (paints[k].y - 2) % cs = 0
                 /\ (paints[k].x - 2) \div cs \in 0..(m.size - 1)
                 /\ (paints[k].y - 2) \div cs \in 0..(m.size - 1)
                 /\ get(m, (paints[k].y - 2) \div cs, (paints[k].x - 2) \div cs)
           /\ \A k \in 1..(Len(paints) - 1) :
                 \/ paints[k].y < paints[k + 1].y
                 \/ (paints[k].y = paints[k + 1].y
                     /\ paints[k].x < paints[k + 1].x)

C16_Witness ==
    /\ pc = "svgReturned"
    /\ qrCodeDataURL[1].mode = "emoji"
    /\ matrix[1].size = 25
    /\ matrix[1].dark = 312
    /\ Len(ret[1]) = 313

\* C17: in image-tile mode the tile boundary of the repeating pattern
\* coincides with the pixel origin of every dark cell, so each dark cell
\* shows the whole tile, unshifted, and all dark cells are identical.
C17_TileAlignedWithCells ==
    (pc = "svgReturned" /\ qrCodeDataURL[1].mode = "image") =>
        LET svg == ret[1]
            pattern == svg[2]
            paints == PaintElements(svg)
        IN /\ pattern.tag = "pattern"
           /\ \A k \in 1..Len(paints) :
                 /\ paints[k].width = pattern.width
                 /\ paints[k].height = pattern.height
                 /\ (paints[k].x - pattern.x) % pattern.width = 0
                 /\ (paints[k].y - pattern.y) % pattern.height = 0

\* the six emoji ranges, in hexadecimal 1F600-1F64F, 1F300-1F5FF,
\* 1F680-1F6FF, 1F1E0-1F1FF, 2600-26FF, 2700-27BF
EmojiBlocks ==
    (128512..128591) \cup (127744..128511) \cup (128640..128767)
        \cup (127456..127487) \cup (9728..9983) \cup (9984..10175)

\* C18: extractFirstEmoji returns the first code point of the caption in
\* one of the six emoji ranges, and the heart glyph when there is none;
\* containsEmoji is true exactly when there is one.
C18_FirstEmojiOrHeart ==
    pc = "emojiReturned" =>
        LET text == body.customText
            hits == {i \in 1..Len(text) : text[i] \in EmojiBlocks}
        IN /\ ret[1].contains <=> (hits # {})
           /\ ret[1].first =
                 IF hits # {}
                 THEN <<text[CHOOSE i \in hits : \A j \in hits : i <= j]>>
                 ELSE RedHeart

\* C21: for every request that uploaded an image, the temporary file has
\* been deleted by the time the response is sent, on every exit path:
\* success, 400 for a missing or invalid URL, 500, renderer fall-back.
C21_UploadDeletedOnEveryExit ==
    (pc = "done" /\ file # <<>>) => ~uploaded

\* the mode the request asks for, read from useCustomPattern, customText
\* and the file alone
RequestedMode ==
    IF body.useCustomPattern = "true"
       /\ (body.customText # <<>> \/ file # <<>>)
    THEN IF body.customText = <<>> THEN "image"
         ELSE IF containsEmoji(body.customText) THEN "emoji" ELSE "text"
    ELSE "standard"

\* C25: the custom path is taken only when useCustomPattern is 'true' and
\* a customText or a file is present; there a customText with an emoji
\* gives emoji mode, any other customText text mode, and the file image
\* mode only without customText; every other request is rendered standard.
\* The emoji field of the request influences neither the mode nor the
\* score.
C25_ModeFromRequest ==
    /\ qrCodeDataURL # <<>> =>
          qrCodeDataURL[1].mode =
              IF fellBack THEN "standard" ELSE RequestedMode
    /\ ContentScored =>
          /\ emojiComplexity # <<>> <=>
                (body.customText # <<>> /\ containsEmoji(body.customText))
          /\ textComplexity # <<>> <=>
                (body.customText # <<>> /\ ~containsEmoji(body.customText))

C25_Witness ==
    /\ Answered
    /\ body.emoji # <<>>
    /\ body.customText = <<>>
    /\ file = <<>>
    /\ body.useCustomPattern = "true"
    /\ response[1].qrCode = <<StandardImage>>
    /\ ContentPenalty = 0

\* C26: within one request the upload is deleted only after the render
\* step and the scorer have finished, so getImageComplexity reads the
\* metadata of a file that still exists: a decodable upload is never
\* charged the unreadable-metadata default because of the cleanup.
C26_UploadOutlivesScoring ==
    /\ (file # <<>>
        /\ pc \in {"handler", "render", "validate", "validateImage",
                   "respond"}) => uploaded
    /\ (imageComplexity # <<>> /\ sharp /\ file[1].readable) =>
          imageComplexity[1] = getImageComplexity(TRUE, file[1])

C26_Witness ==
    /\ Answered
    /\ sharp
    /\ file # <<>>
    /\ file[1].readable
    /\ file[1].format = "gif"
    /\ imageComplexity = <<18>>
    /\ qrCodeDataURL[1].mode = "image"
    /\ ~uploaded

\* C27: every response with isReadable = false carries a warning.
C27_UnreadableHasWarning ==
    (pc = "done" /\ response[1].status = 200
     /\ response[1].isReadable = <<FALSE>>) => response[1].warning # <<>>

\* C28: when the handler renders the standard QR because useCustomPattern
\* is not 'true', the score carries no content penalty (it is 100 minus
\* the matrix penalty), even if the request has a customText or a file.
C28_VerdictMatchesRendering ==
    (Scored /\ body.useCustomPattern # "true") =>
        /\ ContentPenalty = 0
        /\ readabilityScore = 100 - qrComplexity[1]

FilledInputs ==
    {k \in {"customText", "selectedEmoji", "uploadedFile"} : ui[k] # <<>>}

\* the custom-content fields the posted form carries
PostedFields ==
    {k \in {"customText", "emoji"} : body[k] # <<>>}
        \cup (IF file # <<>> THEN {"customImage"} ELSE {})

\* C24: after any sequence of handleTextChange, handleEmojiSelect and
\* handleFileUpload events at most one of customText, selectedEmoji and
\* uploadedFile is non-empty, so a posted form never carries two
\* custom-content fields.
C24_OneCustomInput ==
    /\ pc \in {"ui", "posted"} => Cardinality(FilledInputs) <= 1
    /\ pc = "posted" => Cardinality(PostedFields) <= 1

C24_Witness ==
    /\ pc = "posted"
    /\ FilledInputs = {"uploadedFile"}
    /\ PostedFields = {"customImage"}
    /\ body.useCustomPattern = "true"

\* the images the render step can return for the request when it runs
\* alone
AloneImages ==
    IF body.useCustomPattern = "true"
    THEN {generateCustomQRCode(body.customText, file, fault) :
             fault \in BOOLEAN}
    ELSE {StandardImage}

\* the final score of the request when it runs alone
AloneScore ==
    100 - Opt(emojiComplexity) - Opt(textComplexity)
        - getImageComplexity(sharp, file[1]) - Opt(qrComplexity)

\* C23: two requests in flight share no mutable state: no request
\* overwrites or deletes the upload of the other, and each gets the image,
\* isReadable and warning it would get when run alone.
C23_RequestsIndependent ==
    /\ (file # <<>> /\ pc \in {"handler", "render", "validate",
                              "validateImage", "respond"}) =>
          StoredFile = file
    /\ (Answered /\ file # <<>>) =>
          /\ response[1].qrCode[1] \in AloneImages
          /\ response[1].isReadable = <<isReadable(AloneScore)>>
          /\ response[1].warning # <<>> <=>
                (AloneScore < 50
                 \/ AloneScore + Opt(qrComplexity) < 70)

====
